---- MODULE Spec2Model ----
(***************************************************************************)
(* Model of setup.py: reading the saved version file, deriving the version *)
(* from git, extracting the long description from README, and the two      *)
(* command hooks (build_ext.run and sdist.make_release_tree).              *)
(*                                                                         *)
(* A Python str is a sequence of one-character strings; a text file is a   *)
(* record [exists, lines]; a line of the saved version file is kept        *)
(* without its newline (the code strips it), a README line keeps it.       *)
(***************************************************************************)
EXTENDS Integers, Sequences, FiniteSets, TLC

VARIABLES
    pc,                   \* position of the packaging run
    versionFile,          \* the file SAVED_VERSION_FILE in the source tree
    version,              \* module global `version`
    version_is_from_git,  \* module global `version_is_from_git`
    gitCalls,             \* git subprocesses started (or attempted) so far
    optsIdx,              \* index into [['--first-parent'], []]
    vcs,                  \* what git answered: top level, describe, diff
    description,          \* local `description` of get_version_from_git
    versionParts,         \* local list `version` of get_version_from_git
    labels,               \* local `labels` of get_version_from_git
    header,               \* lines of src/version.hh
    snapshot,             \* SAVED_VERSION_FILE inside the release tree
    sdistRuns,            \* number of make_release_tree runs so far
    sdist,                \* outcome of the last make_release_tree run
    readme,               \* the file README_FILE
    rpc,                  \* position inside long_description
    idx,                  \* number of README lines consumed by the loop
    skip,                 \* local `skip` of long_description
    text,                 \* local `text` of long_description
    result                \* value returned by long_description

vvars == <<pc, versionFile, version, version_is_from_git, gitCalls, optsIdx,
           vcs, description, versionParts, labels, header, snapshot, sdistRuns, sdist>>
rvars == <<readme, rpc, idx, skip, text, result>>
vars == <<vvars, rvars>>

----------------------------------------------------------------------------
(* Bounds of the model *)

MaxVersionLines == 2
MaxReadmeLines == 6
MaxSdistRuns == 2
MaxDistance == 10

----------------------------------------------------------------------------
(* Strings *)

Str_use_git == <<"_", "_", "u", "s", "e", "_", "g", "i", "t", "_", "_">>
Str_unknown == <<"u", "n", "k", "n", "o", "w", "n">>
Str_dirty == <<"d", "i", "r", "t", "y">>
Str_confused == <<"c", "o", "n", "f", "u", "s", "e", "d">>
Str_dev == <<".", "d", "e", "v">>
Str_generated == <<"#", " ", "g", "e", "n", "e", "r", "a", "t", "e", "d">>
NoneVal == <<"None">>

Whitespace == {" ", "\n", "\t"}

RECURSIVE LStripChars(_, _)
LStripChars(s, cs) ==
    IF s # <<>> /\ Head(s) \in cs THEN LStripChars(Tail(s), cs) ELSE s

RECURSIVE RStripChars(_, _)
RStripChars(s, cs) ==
    IF s # <<>> /\ s[Len(s)] \in cs
    THEN RStripChars(SubSeq(s, 1, Len(s) - 1), cs)
    ELSE s

\* str.strip(chars): removes the characters from both ends
StripChars(s, cs) == RStripChars(LStripChars(s, cs), cs)

StartsWith(s, c) == s # <<>> /\ Head(s) = c

DigitChar == <<"0", "1", "2", "3", "4", "5", "6", "7", "8", "9">>

\* decimal rendering of a natural number, as git and str.format print it
RECURSIVE Digits(_)
Digits(n) ==
    IF n < 10 THEN <<DigitChar[n + 1]>>
    ELSE Digits(n \div 10) \o <<DigitChar[(n % 10) + 1]>>

LastIndex(s, c) ==
    IF \E i \in 1..Len(s) : s[i] = c
    THEN CHOOSE i \in 1..Len(s) : s[i] = c /\ \A j \in (i+1)..Len(s) : s[j] # c
    ELSE 0

\* str.rsplit(c, k)
RECURSIVE RSplit(_, _, _)
RSplit(s, c, k) ==
    IF k = 0 \/ LastIndex(s, c) = 0 THEN <<s>>
    ELSE LET i == LastIndex(s, c)
         IN RSplit(SubSeq(s, 1, i - 1), c, k - 1) \o <<SubSeq(s, i + 1, Len(s))>>

\* "".join(parts)
RECURSIVE Join(_)
Join(parts) == IF parts = <<>> THEN <<>> ELSE Head(parts) \o Join(Tail(parts))

\* sep.join(parts)
RECURSIVE JoinWith(_, _)
JoinWith(sep, parts) ==
    IF parts = <<>> THEN <<>>
    ELSE IF Len(parts) = 1 THEN Head(parts)
    ELSE Head(parts) \o sep \o JoinWith(sep, Tail(parts))

----------------------------------------------------------------------------
(* Files *)

NoFile == [exists |-> FALSE, lines |-> <<>>]
File(ls) == [exists |-> TRUE, lines |-> ls]

SeqsUpTo(S, n) == UNION {[1..k -> S] : k \in 0..n}

\* lines a saved version file is made of
VersionLines ==
    { <<>>,                              \* blank line
      <<"#", "c">>,                      \* comment
      <<" ", "#">>,                      \* indented comment
      <<"1", ".", "0">>,                 \* pinned version
      <<" ", "2", " ">>,                 \* pinned version with padding
      Str_use_git }

VersionFiles == {NoFile} \cup {File(ls) : ls \in SeqsUpTo(VersionLines, MaxVersionLines)}

----------------------------------------------------------------------------
(* Saved version file, setup.py lines 93-107 *)

\* the for/else loop over the lines of the saved version file
RECURSIVE ReadVersion(_)
ReadVersion(ls) ==
    IF ls = <<>> THEN [found |-> FALSE, value |-> <<>>]
    ELSE LET line == StripChars(Head(ls), Whitespace)
         IN IF StartsWith(line, "#") THEN ReadVersion(Tail(ls))
            ELSE [found |-> TRUE, value |-> line]

\* README_FILE: missing, present but not readable, or readable
NoReadme == [exists |-> FALSE, readable |-> FALSE, lines |-> <<>>]
ReadmeFile(ls, r) == [exists |-> TRUE, readable |-> r, lines |-> ls]

NoVcs == [toplevel |-> "none", describe |-> <<>>, diff |-> "none"]

Init ==
    /\ pc = "start"
    /\ versionFile \in VersionFiles
    /\ version = NoneVal
    /\ version_is_from_git = FALSE
    /\ gitCalls = <<>>
    /\ optsIdx = 1
    /\ vcs = NoVcs
    /\ description = <<>>
    /\ versionParts = <<>>
    /\ labels = <<>>
    /\ header = <<>>
    /\ snapshot = NoFile
    /\ sdistRuns = 0
    /\ sdist = [state |-> "none", rm |-> "none", wrote |-> FALSE]
    /\ readme = NoReadme
    /\ rpc = "off"
    /\ idx = 0
    /\ skip = TRUE
    /\ text = <<>>
    /\ result = NoneVal

\* ReadSavedVersion without the comparison with "__use_git__": every marker
\* is resolved through git
ReadSavedVersion_AlwaysGit ==
    /\ pc = "start"
    /\ IF ~versionFile.exists
       THEN /\ pc' = "fatal"
            /\ UNCHANGED <<version, version_is_from_git>>
       ELSE LET r == ReadVersion(versionFile.lines)
            IN IF ~r.found
               THEN /\ pc' = "fatal"
                    /\ UNCHANGED <<version, version_is_from_git>>
               ELSE /\ version' = r.value
                    /\ version_is_from_git' = TRUE
                    /\ pc' = "toplevel"
    /\ UNCHANGED <<versionFile, gitCalls, optsIdx, vcs, description,
                   versionParts, labels, header, snapshot, sdistRuns, sdist, rvars>>

\* module level: open the file, take the first line that is no comment
ReadSavedVersion ==
    /\ pc = "start"
    /\ IF ~versionFile.exists
       THEN /\ pc' = "fatal"
            /\ UNCHANGED <<version, version_is_from_git>>
       ELSE LET r == ReadVersion(versionFile.lines)
            IN IF ~r.found
               THEN /\ pc' = "fatal"
                    /\ UNCHANGED <<version, version_is_from_git>>
               ELSE /\ version' = r.value
                    /\ version_is_from_git' = (r.value = Str_use_git)
                    /\ pc' = IF r.value = Str_use_git THEN "toplevel" ELSE "ready"
    /\ UNCHANGED <<versionFile, gitCalls, optsIdx, vcs, description,
                   versionParts, labels, header, snapshot, sdistRuns, sdist, rvars>>

----------------------------------------------------------------------------
(* get_version_from_git, setup.py lines 41-90 *)

\* tag names git may describe the commit by
Tags ==
    { <<"1", ".", "0">>,
      <<"v", "1", ".", "0">>,
      <<"v", "v", "2">>,
      <<"v", "1", "-", "b">> }

\* distances from the tag: on the tag, one digit, the largest one
Distances == {0, 3, MaxDistance}

\* abbreviated commit ids as git describe prints them
CommitIds == { <<"g", "a", "1", "f">> }

\* the ways starting `git describe --long` can end
DescribeOutcomes ==
    {[kind |-> "OSError", tag |-> <<>>, n |-> 0, g |-> <<>>],
     [kind |-> "nonzero", tag |-> <<>>, n |-> 0, g |-> <<>>]}
    \cup {[kind |-> "ok", tag |-> t, n |-> n, g |-> g] :
              t \in Tags, n \in Distances, g \in CommitIds}

\* standard output of a successful `git describe --long`
DescribeStdout(d) == d.tag \o <<"-">> \o Digits(d.n) \o <<"-">> \o d.g \o <<"\n">>

\* `return` without a value: the caller turns it into "unknown" (lines 105-107)
ReturnNone ==
    /\ version' = Str_unknown
    /\ pc' = "ready"

\* GitToplevel without the samefile test
GitToplevel_NoSamefile ==
    /\ pc = "toplevel"
    /\ \E out \in {"OSError", "nonzero", "elsewhere", "same"} :
         /\ gitCalls' = Append(gitCalls, "rev-parse --show-toplevel")
         /\ vcs' = [vcs EXCEPT !.toplevel = out]
         /\ IF out \in {"same", "elsewhere"}
            THEN /\ pc' = "describe"
                 /\ UNCHANGED version
            ELSE ReturnNone
    /\ optsIdx' = 1
    /\ UNCHANGED <<versionFile, version_is_from_git, description, versionParts,
                   labels, header, snapshot, sdistRuns, sdist, rvars>>

\* lines 42-54: git rev-parse --show-toplevel and the samefile test
GitToplevel ==
    /\ pc = "toplevel"
    /\ \E out \in {"OSError", "nonzero", "elsewhere", "same"} :
         /\ gitCalls' = Append(gitCalls, "rev-parse --show-toplevel")
         /\ vcs' = [vcs EXCEPT !.toplevel = out]
         /\ IF out = "same"
            THEN /\ pc' = "describe"
                 /\ UNCHANGED version
            ELSE ReturnNone
    /\ optsIdx' = 1
    /\ UNCHANGED <<versionFile, version_is_from_git, description, versionParts,
                   labels, header, snapshot, sdistRuns, sdist, rvars>>

DescribeOpts == <<"describe --long --first-parent", "describe --long">>

\* GitDescribe going on to the next options when git cannot be started
GitDescribe_RetryOnOSError ==
    /\ pc = "describe"
    /\ \E out \in DescribeOutcomes :
         /\ gitCalls' = Append(gitCalls, DescribeOpts[optsIdx])
         /\ vcs' = [vcs EXCEPT !.describe = Append(@, out)]
         /\ CASE out.kind = "ok" ->
                   /\ description' = RStripChars(StripChars(DescribeStdout(out), {"v"}), {"\n"})
                   /\ pc' = "parse"
                   /\ UNCHANGED <<optsIdx, version>>
              [] out.kind # "ok" /\ optsIdx < Len(DescribeOpts) ->
                   /\ optsIdx' = optsIdx + 1
                   /\ UNCHANGED <<pc, version, description>>
              [] out.kind # "ok" /\ optsIdx = Len(DescribeOpts) ->
                   /\ ReturnNone
                   /\ UNCHANGED <<optsIdx, description>>
    /\ UNCHANGED <<versionFile, version_is_from_git, versionParts, labels,
                   header, snapshot, sdistRuns, sdist, rvars>>

\* lines 58-69: one iteration of the loop over the describe options
GitDescribe ==
    /\ pc = "describe"
    /\ \E out \in DescribeOutcomes :
         /\ gitCalls' = Append(gitCalls, DescribeOpts[optsIdx])
         /\ vcs' = [vcs EXCEPT !.describe = Append(@, out)]
         /\ CASE out.kind = "OSError" ->
                   /\ ReturnNone
                   /\ UNCHANGED <<optsIdx, description>>
              [] out.kind = "ok" ->
                   /\ description' = RStripChars(StripChars(DescribeStdout(out), {"v"}), {"\n"})
                   /\ pc' = "parse"
                   /\ UNCHANGED <<optsIdx, version>>
              [] out.kind = "nonzero" /\ optsIdx < Len(DescribeOpts) ->
                   /\ optsIdx' = optsIdx + 1
                   /\ UNCHANGED <<pc, version, description>>
              [] out.kind = "nonzero" /\ optsIdx = Len(DescribeOpts) ->
                   /\ ReturnNone
                   /\ UNCHANGED <<optsIdx, description>>
    /\ UNCHANGED <<versionFile, version_is_from_git, versionParts, labels,
                   header, snapshot, sdistRuns, sdist, rvars>>

\* ParseDescription without the test dev != "0"
ParseDescription_AlwaysDev ==
    /\ pc = "parse"
    /\ LET fields == RSplit(description, "-", 2)
       IN IF Len(fields) # 3
          THEN /\ pc' = "fatal"
               /\ UNCHANGED <<versionParts, labels>>
          ELSE /\ pc' = "diff"
               /\ versionParts' = <<fields[1], Str_dev \o fields[2]>>
               /\ labels' = <<fields[3]>>
    /\ UNCHANGED <<versionFile, version, version_is_from_git, gitCalls, optsIdx,
                   vcs, description, header, snapshot, sdistRuns, sdist, rvars>>

\* lines 71-76: split the description, start the version and the labels
ParseDescription ==
    /\ pc = "parse"
    /\ LET fields == RSplit(description, "-", 2)
       IN IF Len(fields) # 3
          THEN /\ pc' = "fatal"        \* ValueError from the unpacking
               /\ UNCHANGED <<versionParts, labels>>
          ELSE LET release == fields[1]
                   dev == fields[2]
                   git == fields[3]
               IN /\ pc' = "diff"
                  /\ IF dev # <<"0">>
                     THEN /\ versionParts' = <<release, Str_dev \o dev>>
                          /\ labels' = <<git>>
                     ELSE /\ versionParts' = <<release>>
                          /\ labels' = <<>>
    /\ UNCHANGED <<versionFile, version, version_is_from_git, gitCalls, optsIdx,
                   vcs, description, header, snapshot, sdistRuns, sdist, rvars>>

\* GitDiff labelling every exit status other than 0 and 1 as confused
GitDiff_ConfusedOnStatus ==
    /\ pc = "diff"
    /\ \E out \in {"OSError", "0", "1", "129"} :
         LET labs == IF out = "1" THEN Append(labels, Str_dirty)
                     ELSE IF out # "0" THEN Append(labels, Str_confused)
                     ELSE labels
             parts == IF labs # <<>>
                      THEN versionParts \o <<<<"+">>, JoinWith(<<".">>, labs)>>
                      ELSE versionParts
         IN /\ gitCalls' = Append(gitCalls, "diff --quiet")
            /\ vcs' = [vcs EXCEPT !.diff = out]
            /\ labels' = labs
            /\ versionParts' = parts
            /\ version' = (IF Join(parts) = <<>> THEN Str_unknown ELSE Join(parts))
            /\ pc' = "ready"
    /\ UNCHANGED <<versionFile, version_is_from_git, optsIdx, description,
                   header, snapshot, sdistRuns, sdist, rvars>>

\* lines 78-90: git diff --quiet, then the assembly of the version
GitDiff ==
    /\ pc = "diff"
    /\ \E out \in {"OSError", "0", "1", "129"} :
         LET labs == IF out = "OSError" THEN Append(labels, Str_confused)
                     ELSE IF out = "1" THEN Append(labels, Str_dirty)
                     ELSE labels
             parts == IF labs # <<>>
                      THEN versionParts \o <<<<"+">>, JoinWith(<<".">>, labs)>>
                      ELSE versionParts
         IN /\ gitCalls' = Append(gitCalls, "diff --quiet")
            /\ vcs' = [vcs EXCEPT !.diff = out]
            /\ labels' = labs
            /\ versionParts' = parts
            /\ version' = (IF Join(parts) = <<>> THEN Str_unknown ELSE Join(parts))
            /\ pc' = "ready"
    /\ UNCHANGED <<versionFile, version_is_from_git, optsIdx, description,
                   header, snapshot, sdistRuns, sdist, rvars>>

----------------------------------------------------------------------------
(* Command hooks, setup.py lines 131-153 *)

\* our_build_ext.run: the three lines of src/version.hh
BuildExtRun ==
    /\ pc = "ready"
    /\ header' = << <<"/", "/", "1">>, <<"/", "/", "2">>,
                    <<"#", "d", "e", "f", " ", "\"">> \o version \o <<"\"">> >>
    /\ UNCHANGED <<pc, versionFile, version, version_is_from_git, gitCalls,
                   optsIdx, vcs, description, versionParts, labels, snapshot,
                   sdistRuns, sdist, rvars>>

\* the marker written back instead of the resolved version
GeneratedVersionFile_Marker(v) ==
    File(<<Str_generated, IF version_is_from_git THEN Str_use_git ELSE v>>)

\* content written by make_release_tree (lines 152-153)
GeneratedVersionFile(v) == File(<<Str_generated, v>>)

\* our_sdist.make_release_tree: the parent stages the tree, then the saved
\* version file of the tree is removed and written anew
MakeReleaseTree ==
    /\ pc = "ready"
    /\ sdistRuns < MaxSdistRuns
    /\ sdistRuns' = sdistRuns + 1
    /\ \E staged \in {NoFile, versionFile, snapshot} :
       \E rm \in {"removed", "ENOENT", "EACCES"} :
       \E op \in {"ok", "IOError"} :
         /\ rm = "removed" => staged.exists
         /\ rm = "ENOENT" => ~staged.exists
         /\ LET afterRemove == IF rm = "removed" THEN NoFile ELSE staged
            IN IF op = "ok"
               THEN /\ snapshot' = GeneratedVersionFile(version)
                    /\ sdist' = [state |-> "done", rm |-> rm, wrote |-> TRUE]
               ELSE /\ snapshot' = afterRemove
                    /\ sdist' = [state |-> "raised", rm |-> rm, wrote |-> FALSE]
    /\ UNCHANGED <<pc, versionFile, version, version_is_from_git, gitCalls,
                   optsIdx, vcs, description, versionParts, labels, header, rvars>>

----------------------------------------------------------------------------
(* long_description, setup.py lines 110-128 *)

BlankLine == <<"\n">>

\* lines a README is made of (each with its newline)
ReadmeLines ==
    { BlankLine,
      <<"T", "\n">>,
      <<"S", "\n">>,
      <<"M", " ", "\n">> }

ReadmeFiles ==
    {NoReadme} \cup {ReadmeFile(ls, r) : ls \in SeqsUpTo(ReadmeLines, MaxReadmeLines),
                                         r \in BOOLEAN}

\* the state main() calls long_description in: a pinned version was read
InitDesc ==
    /\ pc = "ready"
    /\ versionFile = File(<< <<"1", ".", "0">> >>)
    /\ version = <<"1", ".", "0">>
    /\ version_is_from_git = FALSE
    /\ gitCalls = <<>>
    /\ optsIdx = 1
    /\ vcs = NoVcs
    /\ description = <<>>
    /\ versionParts = <<>>
    /\ labels = <<>>
    /\ header = <<>>
    /\ snapshot = NoFile
    /\ sdistRuns = 0
    /\ sdist = [state |-> "none", rm |-> "none", wrote |-> FALSE]
    /\ readme \in ReadmeFiles
    /\ rpc = "call"
    /\ idx = 0
    /\ skip = TRUE
    /\ text = <<>>
    /\ result = NoneVal

\* lines 111-114 and 125-126: open(README_FILE); a failure returns ''
OpenReadme ==
    /\ rpc = "call"
    /\ IF readme.exists /\ readme.readable
       THEN /\ rpc' = "loop"
            /\ UNCHANGED result
       ELSE /\ rpc' = "returned"
            /\ result' = <<>>
    /\ UNCHANGED <<vvars, readme, idx, skip, text>>

\* lines 115-124: one iteration of the loop over the lines
ReadmeLine ==
    /\ rpc = "loop"
    /\ idx < Len(readme.lines)
    /\ idx' = idx + 1
    /\ LET line == readme.lines[idx + 1]
       IN IF line = BlankLine /\ skip
          THEN /\ skip' = FALSE
               /\ UNCHANGED <<rpc, text, result>>
          ELSE IF line = BlankLine /\ text = <<>>
          THEN /\ rpc' = "returned"     \* IndexError, caught by the except
               /\ result' = <<>>
               /\ UNCHANGED <<skip, text>>
          ELSE IF line = BlankLine /\ text[Len(text)] = BlankLine
          THEN /\ text' = SubSeq(text, 1, Len(text) - 1)
               /\ rpc' = "after"
               /\ UNCHANGED <<skip, result>>
          ELSE /\ text' = IF ~skip THEN Append(text, line) ELSE text
               /\ UNCHANGED <<rpc, skip, result>>
    /\ UNCHANGED <<vvars, readme>>

\* ReadmeFinish without the rstrip of the last line
ReadmeFinish_NoRStrip ==
    /\ \/ rpc = "after"
       \/ rpc = "loop" /\ idx = Len(readme.lines)
    /\ IF text = <<>>
       THEN /\ rpc' = "raised"
            /\ UNCHANGED <<text, result>>
       ELSE /\ result' = Join(text)
            /\ rpc' = "returned"
            /\ UNCHANGED text
    /\ UNCHANGED <<vvars, readme, idx, skip>>

\* lines 127-128, reached by the break or by the end of the file
ReadmeFinish ==
    /\ \/ rpc = "after"
       \/ rpc = "loop" /\ idx = Len(readme.lines)
    /\ IF text = <<>>
       THEN /\ rpc' = "raised"          \* IndexError outside the try
            /\ UNCHANGED <<text, result>>
       ELSE LET last == RStripChars(text[Len(text)], Whitespace)
                t == [text EXCEPT ![Len(text)] = last]
            IN /\ text' = t
               /\ result' = Join(t)
               /\ rpc' = "returned"
    /\ UNCHANGED <<vvars, readme, idx, skip>>

NextDesc ==
    \/ OpenReadme
    \/ ReadmeLine
    \/ ReadmeFinish

SpecDesc == InitDesc /\ [][NextDesc]_vars

Next ==
    \/ ReadSavedVersion
    \/ GitToplevel
    \/ GitDescribe
    \/ ParseDescription
    \/ GitDiff
    \/ BuildExtRun
    \/ MakeReleaseTree

Spec == Init /\ [][Next]_vars

----------------------------------------------------------------------------
(* Properties *)

Range(q) == {q[i] : i \in 1..Len(q)}

EndsWith(s, suffix) ==
    /\ Len(s) >= Len(suffix)
    /\ SubSeq(s, Len(s) - Len(suffix) + 1, Len(s)) = suffix

\* a line whose first character that is no whitespace is '#'
IsCommentLine(l) ==
    \E k \in 1..Len(l) : l[k] = "#" /\ \A j \in 1..(k - 1) : l[j] \in Whitespace

IsBlankLine(l) == \A k \in 1..Len(l) : l[k] \in Whitespace

\* a line without the whitespace around it
Trimmed(l) ==
    IF IsBlankLine(l) THEN <<>>
    ELSE LET ink == {k \in 1..Len(l) : l[k] \notin Whitespace}
             lo == CHOOSE k \in ink : \A j \in ink : k <= j
             hi == CHOOSE k \in ink : \A j \in ink : k >= j
         IN SubSeq(l, lo, hi)

Least(S) == CHOOSE k \in S : \A j \in S : k <= j

\* positions of the lines of the saved version file that are no comments
NonCommentLines == {i \in 1..Len(versionFile.lines) : ~IsCommentLine(versionFile.lines[i])}

\* the marker the run works with: the first line that is no comment
MarkerValue ==
    IF NonCommentLines = {} THEN NoneVal
    ELSE Trimmed(versionFile.lines[Least(NonCommentLines)])

\* positions of the lines that are neither comments nor blank
SignificantLines == {i \in NonCommentLines : ~IsBlankLine(versionFile.lines[i])}

SignificantValue == Trimmed(versionFile.lines[Least(SignificantLines)])

Resolved == pc = "ready"

Described == vcs.describe[Len(vcs.describe)]

TagWithoutV(t) ==
    IF \A k \in 1..Len(t) : t[k] = "v" THEN <<>>
    ELSE SubSeq(t, Least({k \in 1..Len(t) : t[k] # "v"}), Len(t))

ExpectedLabels(d, dirty) ==
    (IF d.n # 0 THEN <<d.g>> ELSE <<>>) \o (IF dirty THEN <<Str_dirty>> ELSE <<>>)

ExpectedVersion(d, dirty) ==
    LET labs == ExpectedLabels(d, dirty)
    IN TagWithoutV(d.tag)
       \o (IF d.n # 0 THEN Str_dev \o Digits(d.n) ELSE <<>>)
       \o (IF labs = <<>> THEN <<>>
           ELSE IF Len(labs) = 1 THEN <<"+">> \o labs[1]
           ELSE <<"+">> \o labs[1] \o <<".">> \o labs[2])

\* C2: with __use_git__ as marker, a top level equal to the source root, a
\* describe answer (tag T, distance N, commit id G) and a dirty check that
\* ran, the version is T without its leading v, then .devN iff N # 0, then
\* '+' and the labels joined by '.', the labels being G iff N # 0 followed
\* by dirty iff the dirty check exited with status 1.
C2_VersionFromDescribe ==
    (/\ Resolved
     /\ MarkerValue = Str_use_git
     /\ vcs.toplevel = "same"
     /\ vcs.diff \in {"0", "1", "129"})
        => version = ExpectedVersion(Described, vcs.diff = "1")

C2_Witness ==
    /\ Resolved
    /\ vcs.describe # <<>>
    /\ Described.tag = <<"v", "1", ".", "0">>
    /\ Described.n = 3
    /\ vcs.diff = "1"
    /\ version = <<"1", ".", "0", ".", "d", "e", "v", "3", "+",
                   "g", "a", "1", "f", ".", "d", "i", "r", "t", "y">>

\* C3: with __use_git__ as marker, the version is "unknown" and the run goes
\* on (no error) when git cannot be started, when the top-level query exits
\* non-zero, and when the top level is another directory than the root.
C3_UnknownWithoutRepository ==
    (/\ MarkerValue = Str_use_git
     /\ vcs.toplevel \in {"OSError", "nonzero", "elsewhere"})
        => /\ Resolved
           /\ version = Str_unknown

C3_Witness ==
    /\ Resolved
    /\ vcs.toplevel = "elsewhere"
    /\ version = Str_unknown

\* C4: the marker is the first line that is neither a comment nor blank, and
\* a saved version file without such a line (or no file) is a fatal error.
C4_FirstSignificantLine ==
    pc # "start" =>
        IF versionFile.exists /\ SignificantLines # {}
        THEN /\ pc # "fatal"
             /\ version_is_from_git = (SignificantValue = Str_use_git)
             /\ (SignificantValue # Str_use_git => version = SignificantValue)
        ELSE pc = "fatal"

\* long_description has come to an end
Finished == rpc \in {"returned", "raised"}

Opened == readme.exists /\ readme.readable

BlankAt(ls) == {i \in 1..Len(ls) : ls[i] = BlankLine}

\* joined lines with the newline of the last one taken off
JoinedWithoutLastNewline(ls) ==
    IF ls = <<>> THEN <<>>
    ELSE LET j == Join(ls) IN SubSeq(j, 1, Len(j) - 1)

\* the first run of lines that are not blank
FirstParagraph(ls) ==
    LET inked == {i \in 1..Len(ls) : ls[i] # BlankLine}
    IN IF inked = {} THEN <<>>
       ELSE LET first == Least(inked)
                after == {i \in BlankAt(ls) : i > first}
                last == IF after = {} THEN Len(ls) ELSE Least(after) - 1
            IN JoinedWithoutLastNewline(SubSeq(ls, first, last))

JoinedRStripped(ls) ==
    Join(SubSeq(ls, 1, Len(ls) - 1)) \o RStripChars(ls[Len(ls)], Whitespace)

\* the lines after the first blank line, up to a pair of blank lines
AfterFirstBlank(ls) ==
    LET rest == SubSeq(ls, Least(BlankAt(ls)) + 1, Len(ls))
        pairs == {j \in 1..(Len(rest) - 1) :
                      rest[j] = BlankLine /\ rest[j + 1] = BlankLine}
    IN IF pairs = {} THEN rest ELSE SubSeq(rest, 1, Least(pairs) - 1)

C6_NeverFails ==
    /\ rpc # "raised"
    /\ (Finished /\ ~Opened) => result = <<>>

GeneratedContent(f) ==
    /\ f.exists
    /\ Len(f.lines) = 2
    /\ StartsWith(f.lines[1], "#")
    /\ f.lines[2] = version
    /\ f.lines[2] # Str_use_git

\* C7: after make_release_tree has run, the saved version file of the
\* release tree is a comment line followed by the resolved version, which is
\* never __use_git__; a further run leaves the content as it is.
C7_SnapshotPinned ==
    /\ [](sdist.state = "done" => GeneratedContent(snapshot))
    /\ [][(sdist.state = "done" /\ sdist'.state = "done") => snapshot' = snapshot]_vars

C7_Witness ==
    /\ sdist.state = "done"
    /\ sdistRuns = 2
    /\ MarkerValue = Str_use_git
    /\ vcs.diff = "1"
    /\ GeneratedContent(snapshot)

\* C8: when removing the saved version file of the release tree fails for
\* another reason than the file being absent, make_release_tree raises and
\* does not write the file.
C8_OnlyMissingTolerated ==
    sdist.rm = "EACCES" => (sdist.state = "raised" /\ ~sdist.wrote)

NeverBothLabels == ~(Str_confused \in Range(labels) /\ Str_dirty \in Range(labels))

\* C9 as stated: when git diff runs and exits with a status that is neither
\* 0 nor 1, the version is resolved and carries the label confused; confused
\* and dirty are never both present.
C9_ConfusedOnOtherStatus ==
    /\ vcs.diff = "129" => (Resolved /\ Str_confused \in Range(labels)
                                     /\ EndsWith(version, Str_confused))
    /\ NeverBothLabels

\* C9 as amended: when git diff cannot be started, the version is resolved
\* and ends with the label confused; when git diff runs, whatever its exit
\* status, confused is not recorded, and an exit status that is neither 0
\* nor 1 records no label for the dirty check at all; confused and dirty are
\* never both present.
C9_ConfusedWhenNotStarted ==
    /\ vcs.diff = "OSError" => (Resolved /\ EndsWith(version, Str_confused)
                                         /\ labels[Len(labels)] = Str_confused)
    /\ vcs.diff \in {"0", "1", "129"} => ~EndsWith(version, Str_confused)
    /\ vcs.diff = "129" => (Resolved /\ ~EndsWith(version, Str_dirty)
                                     /\ Str_dirty \notin Range(labels)
                                     /\ Str_confused \notin Range(labels))
    /\ NeverBothLabels

C9_Witness ==
    /\ Resolved
    /\ vcs.diff = "OSError"
    /\ version = <<"1", ".", "0", ".", "d", "e", "v", "3", "+",
                   "g", "a", "1", "f", ".", "c", "o", "n", "f", "u", "s", "e", "d">>

DescribeCalls == SelectSeq(gitCalls, LAMBDA c : c \in Range(DescribeOpts))

\* the answer of git describe with the leading v's and the newline cut off
IsDescriptionOf(desc, d) ==
    LET out == DescribeStdout(d)
        k == Len(out) - 1 - Len(desc)
    IN /\ k >= 0
       /\ SubSeq(out, k + 1, Len(out) - 1) = desc
       /\ \A j \in 1..k : out[j] = "v"

\* C10: the first describe query is the first-parent one; the full-ancestry
\* query is made exactly when the first-parent query exited non-zero; the
\* description that is parsed comes from the query that succeeded; when both
\* exit non-zero the version is "unknown", nothing is parsed and git diff is
\* not run.
C10_DescribeFallback ==
    /\ Len(DescribeCalls) = Len(vcs.describe)
    /\ DescribeCalls = SubSeq(DescribeOpts, 1, Len(DescribeCalls))
    /\ Len(vcs.describe) = 2 => vcs.describe[1].kind = "nonzero"
    /\ (Len(vcs.describe) = 1 /\ vcs.describe[1].kind = "nonzero") => pc = "describe"
    /\ (pc \in {"parse", "diff"} \/ (Resolved /\ vcs.diff # "none"))
          => /\ Described.kind = "ok"
             /\ IsDescriptionOf(description, Described)
             /\ (\/ EndsWith(gitCalls, <<DescribeOpts[Len(vcs.describe)]>>)
                 \/ EndsWith(gitCalls, <<DescribeOpts[Len(vcs.describe)], "diff --quiet">>))
    /\ (Len(vcs.describe) = 2 /\ vcs.describe[2].kind = "nonzero")
          => /\ Resolved
             /\ version = Str_unknown
             /\ description = <<>>
             /\ versionParts = <<>>
             /\ labels = <<>>
             /\ vcs.diff = "none"
             /\ "diff --quiet" \notin Range(gitCalls)

C10_Witness ==
    /\ Resolved
    /\ Len(vcs.describe) = 2
    /\ vcs.describe[2].kind = "ok"
    /\ vcs.describe[2].tag = <<"v", "1", "-", "b">>
    /\ vcs.describe[2].n = MaxDistance
    /\ vcs.diff = "0"

====
